---- MODULE Spec2Model ----
(***************************************************************************)
(* Safety-filtering and backend-dispatch pipeline of the chat front end:   *)
(*   AuthManager (credential cache), ModelArmorClient (safety classifier), *)
(*   the aggregated chat route and the streaming run_sse route.            *)
(*                                                                         *)
(* Texts are sequences of tokens: <<>> is the empty string (falsy in JS),  *)
(* \o is string concatenation.  Times are milliseconds, as Date.now().     *)
(***************************************************************************)
EXTENDS Integers, Sequences, FiniteSets, TLC

VARIABLES
    now,            \* Date.now()
    cachedAuth,     \* AuthManager.cachedAuth
    issued,         \* tokens handed out by the identity provider so far
    lastExchangeAt, \* time the last successful exchange completed (-1: none)
    call,           \* per caller: the getAccessToken activation
    san,            \* the sanitizePrompt / sanitizeResponse activation
    net,            \* outbound calls made for the current request
    env,            \* process.env.ENABLE_MODEL_ARMOR
    useAgentEngine, \* the deployment's backend-selection flag
    nodeEnv,        \* process.env.NODE_ENV
    req,            \* the request a route handler is serving
    gen,            \* the backend call of that request
    agg             \* a collectStreamingResponse activation on its own

authVars == <<now, cachedAuth, issued, lastExchangeAt, call>>
clientVars == <<san, net>>
configVars == <<env, useAgentEngine, nodeEnv>>
routeVars == <<req, gen, agg>>

----------------------------------------------------------------------------
(* Bounds of the model *)

MaxTicks == 13
ClockStep == 300000
MaxExchanges == 3
MaxPresent == 2
MaxLines == 3

----------------------------------------------------------------------------
(* AuthManager *)

\* 5 min buffer of the cache check
EXPIRY_BUFFER_MS == 300000
\* 1 hour lifetime given to a fresh token
TOKEN_LIFETIME_MS == 3600000

NoToken == 0
\* this.cachedAuth = null
NoAuth == [accessToken |-> NoToken, expiresAt |-> 0]

DirectCallers == {"c1", "c2"}
Callers == DirectCallers \cup {"client", "backend"}

\* An activation of getAccessToken.  pc, token and exchanges are the call's
\* position, return value and number of exchanges it started; at, t0, tok0 and
\* cache0 record what the call saw when it was issued: the time, the time and
\* token of the latest completed exchange, and the cache slot.
IdleCall ==
    [pc |-> "idle", token |-> NoToken, at |-> 0, exchanges |-> 0,
     t0 |-> -1, tok0 |-> NoToken, cache0 |-> NoAuth]

CacheValidInclusive(auth, t) ==
    /\ auth # NoAuth
    /\ t <= auth.expiresAt - EXPIRY_BUFFER_MS

CacheValidNoBuffer(auth, t) ==
    /\ auth # NoAuth
    /\ t < auth.expiresAt

\* this.cachedAuth && Date.now() < this.cachedAuth.expiresAt - 300000
CacheValid(auth, t) ==
    /\ auth # NoAuth
    /\ t < auth.expiresAt - EXPIRY_BUFFER_MS

\* this.cachedAuth = { accessToken: token, expiresAt: Date.now() + 3600000 }
NewAuth(token, t) ==
    [accessToken |-> token, expiresAt |-> t + TOKEN_LIFETIME_MS]

\* getAccessToken up to its first suspension: the cache check, and either the
\* cached token returned at once or the exchange started.
GetAccessTokenBegin(c) ==
    /\ call[c].pc = "idle"
    /\ LET seen == [IdleCall EXCEPT !.at = now, !.t0 = lastExchangeAt,
                                    !.tok0 = issued, !.cache0 = cachedAuth]
       IN  IF CacheValid(cachedAuth, now)
           THEN call' = [call EXCEPT ![c] =
                            [seen EXCEPT !.pc = "returned",
                                         !.token = cachedAuth.accessToken]]
           ELSE call' = [call EXCEPT ![c] =
                            [seen EXCEPT !.pc = "exchanging", !.exchanges = 1]]
    /\ UNCHANGED <<now, cachedAuth, issued, lastExchangeAt>>

ExchangeSucceedsStampedAtStart(c) ==
    /\ call[c].pc = "exchanging"
    /\ issued < MaxExchanges
    /\ issued' = issued + 1
    /\ cachedAuth' = NewAuth(issued + 1, call[c].at)
    /\ lastExchangeAt' = now
    /\ call' = [call EXCEPT ![c].pc = "returned", ![c].token = issued + 1]
    /\ UNCHANGED now

\* the exchange resolves with a token: cache it and return it
ExchangeSucceeds(c) ==
    /\ call[c].pc = "exchanging"
    /\ issued < MaxExchanges
    /\ issued' = issued + 1
    /\ cachedAuth' = NewAuth(issued + 1, now)
    /\ lastExchangeAt' = now
    /\ call' = [call EXCEPT ![c].pc = "returned", ![c].token = issued + 1]
    /\ UNCHANGED now

ExchangeFailsDropsCache(c) ==
    /\ call[c].pc = "exchanging"
    /\ call' = [call EXCEPT ![c].pc = "raised"]
    /\ cachedAuth' = NoAuth
    /\ UNCHANGED <<now, issued, lastExchangeAt>>

\* the provider fails or answers without a token: the catch block raises
ExchangeFails(c) ==
    /\ call[c].pc = "exchanging"
    /\ call' = [call EXCEPT ![c].pc = "raised"]
    /\ UNCHANGED <<now, cachedAuth, issued, lastExchangeAt>>

\* the caller has taken the result; the activation is over
CallDone(c) ==
    /\ call[c].pc \in {"returned", "raised"}
    /\ call' = [call EXCEPT ![c] = IdleCall]
    /\ UNCHANGED <<now, cachedAuth, issued, lastExchangeAt>>

Tick ==
    /\ now < MaxTicks * ClockStep
    /\ now' = now + ClockStep
    /\ UNCHANGED <<cachedAuth, issued, lastExchangeAt, call>>

----------------------------------------------------------------------------
(* Texts *)

EmptyText == <<>>
TruthyAlways(text) == TRUE

\* truthiness of a string: every string but the empty one
Truthy(text) == text # EmptyText

\* what a user may send as `message` (EmptyText: missing or empty)
Messages == {EmptyText, <<"What's the weather?">>, <<"my", "SSN", "is", "123">>}
\* what the de-identification filter may return as rewritten text
DeidTexts == {EmptyText, <<"my", "SSN", "is", "[REDACTED]">>}

----------------------------------------------------------------------------
(* The classifier's answer, as the parsed JSON body the client reads.         *)
(* A match state is 1 (no match), 2 (match), another number, or Undefined     *)
(* (the field is missing); a sub-result that is missing is Missing.           *)

Undefined == -1
Missing == -2
SubStates == {0, 1, 2, 3}
FilterMatchStates == {Undefined, 0, 1, 2, 3}
OptStates == {Missing} \cup SubStates

\* filterResults.sdp: the entry, its sdpFilterResult, and in it inspectResult
\* and deidentifyResult (with data.text) when present
SdpAbsent ==
    [present |-> FALSE, hasResult |-> FALSE, inspect |-> Missing,
     deid |-> Missing, text |-> EmptyText]
SdpEntries ==
    {SdpAbsent, [SdpAbsent EXCEPT !.present = TRUE]}
    \cup {[present |-> TRUE, hasResult |-> TRUE, inspect |-> i,
           deid |-> Missing, text |-> EmptyText] : i \in {Missing, 1, 2}}
    \cup {[present |-> TRUE, hasResult |-> TRUE, inspect |-> i,
           deid |-> d, text |-> t] :
              i \in {Missing, 2}, d \in {1, 2}, t \in DeidTexts}

\* filterResults.piAndJailbreak and filterResults.maliciousUris: the entry and
\* its piAndJailbreakFilterResult / maliciousUriFilterResult
FilterAbsent == [present |-> FALSE, hasResult |-> FALSE, matchState |-> Missing]
FilterEntries ==
    {FilterAbsent, [FilterAbsent EXCEPT !.present = TRUE]}
    \cup {[present |-> TRUE, hasResult |-> TRUE, matchState |-> m] :
              m \in SubStates}

\* filterResults.rai: the entry, its raiFilterResult, and in it
\* raiFilterTypeResults with the four sub-categories
RaiTypes == {"sexuallyExplicit", "hateSpeech", "harassment", "dangerous"}
NoTypes == [k \in RaiTypes |-> Missing]
RaiAbsent ==
    [present |-> FALSE, hasResult |-> FALSE, matchState |-> Missing,
     hasTypes |-> FALSE, types |-> NoTypes]
RaiTypeResults ==
    {[sexuallyExplicit |-> a, hateSpeech |-> b, harassment |-> c,
      dangerous |-> d] :
        a \in OptStates, b \in {Missing, 1}, c \in {Missing, 2},
        d \in {Missing, 0, 2}}
RaiEntries ==
    {RaiAbsent, [RaiAbsent EXCEPT !.present = TRUE]}
    \cup {[present |-> TRUE, hasResult |-> TRUE, matchState |-> m,
           hasTypes |-> FALSE, types |-> NoTypes] : m \in {1, 2}}
    \cup {[present |-> TRUE, hasResult |-> TRUE, matchState |-> m,
           hasTypes |-> TRUE, types |-> t] :
              m \in {1, 2}, t \in RaiTypeResults}

\* `{}`
EmptyFilterResults ==
    [sdp |-> SdpAbsent, piAndJailbreak |-> FilterAbsent,
     maliciousUris |-> FilterAbsent, rai |-> RaiAbsent]

PresentCount(fr) ==
    Cardinality({k \in {"sdp", "piAndJailbreak", "maliciousUris", "rai"} :
                    fr[k].present})

FilterResultSets ==
    {fr \in [sdp : SdpEntries, piAndJailbreak : FilterEntries,
             maliciousUris : FilterEntries, rai : RaiEntries] :
        PresentCount(fr) <= MaxPresent}

\* the parsed body: sanitizationResult (or none), its filterMatchState and its
\* filterResults (or none)
NoResultBody ==
    [hasResult |-> FALSE, filterMatchState |-> Undefined,
     hasFilterResults |-> FALSE, filterResults |-> EmptyFilterResults]
ApiBodies ==
    {NoResultBody}
    \cup {[hasResult |-> TRUE, filterMatchState |-> m,
           hasFilterResults |-> FALSE, filterResults |-> EmptyFilterResults] :
              m \in FilterMatchStates}
    \cup {[hasResult |-> TRUE, filterMatchState |-> m,
           hasFilterResults |-> TRUE, filterResults |-> fr] :
              m \in FilterMatchStates, fr \in FilterResultSets}

\* how the POST to the classifier ends: the request rejects, the status is not
\* 2xx, the body is not JSON, or a JSON body arrives
FetchKinds == {"network_error", "http_error", "bad_json", "ok"}
FetchFailure(kind) == [kind |-> kind, body |-> NoResultBody]
FetchOk(body) == [kind |-> "ok", body |-> body]
ApiResponses ==
    {FetchFailure(k) : k \in FetchKinds \ {"ok"}}
    \cup {FetchOk(b) : b \in ApiBodies}

----------------------------------------------------------------------------
(* ModelArmorClient *)

getMatchStateMessage(matchState) ==
    CASE matchState = 1 -> "safe"
      [] matchState = 2 -> "blocked"
      [] OTHER -> "not_assessed"

\* `x?.matchState || 0`
OrZero(m) == IF m = Missing \/ m = Undefined THEN 0 ELSE m

\* details = {}; a key that is never assigned is "absent"
NoRai ==
    [overall |-> "absent", sexuallyExplicit |-> "absent",
     hateSpeech |-> "absent", harassment |-> "absent", dangerous |-> "absent"]
NoDetails ==
    [sensitiveData |-> "absent", promptInjection |-> "absent",
     maliciousUrls |-> "absent", responsibleAI |-> NoRai]

\* parseDetails dereferences the result object of every entry that is present
parseDetailsThrows(filterResults) ==
    \/ filterResults.sdp.present /\ ~filterResults.sdp.hasResult
    \/ filterResults.piAndJailbreak.present
          /\ ~filterResults.piAndJailbreak.hasResult
    \/ filterResults.maliciousUris.present
          /\ ~filterResults.maliciousUris.hasResult
    \/ filterResults.rai.present /\ ~filterResults.rai.hasResult

parseDetails(filterResults) ==
    LET sdp == filterResults.sdp
        pij == filterResults.piAndJailbreak
        uri == filterResults.maliciousUris
        rai == filterResults.rai
        raiTypes == IF rai.hasTypes THEN rai.types ELSE NoTypes
    IN  [sensitiveData |->
            IF ~sdp.present THEN "absent"
            ELSE IF sdp.inspect # Missing
                 THEN getMatchStateMessage(sdp.inspect)
            ELSE IF sdp.deid # Missing
                 THEN getMatchStateMessage(sdp.deid)
            ELSE "absent",
         promptInjection |->
            IF pij.present THEN getMatchStateMessage(pij.matchState)
            ELSE "absent",
         maliciousUrls |->
            IF uri.present THEN getMatchStateMessage(uri.matchState)
            ELSE "absent",
         responsibleAI |->
            IF ~rai.present THEN NoRai
            ELSE [overall |-> getMatchStateMessage(rai.matchState),
                  sexuallyExplicit |->
                      getMatchStateMessage(OrZero(raiTypes.sexuallyExplicit)),
                  hateSpeech |->
                      getMatchStateMessage(OrZero(raiTypes.hateSpeech)),
                  harassment |->
                      getMatchStateMessage(OrZero(raiTypes.harassment)),
                  dangerous |->
                      getMatchStateMessage(OrZero(raiTypes.dangerous))]]

\* sanitizationResult.filterResults || {}
FilterResultsOf(body) ==
    IF body.hasFilterResults THEN body.filterResults ELSE EmptyFilterResults

\* filterResults.sdp?.sdpFilterResult?.deidentifyResult?.data?.text
DeidentifiedText(filterResults) ==
    IF /\ filterResults.sdp.present
       /\ filterResults.sdp.hasResult
       /\ filterResults.sdp.deid # Missing
    THEN filterResults.sdp.text
    ELSE EmptyText

\* parseResponse reads sanitizationResult.filterMatchState and calls
\* parseDetails: it throws when either dereferences a missing object
parseResponseThrows(body) ==
    \/ ~body.hasResult
    \/ parseDetailsThrows(FilterResultsOf(body))

parseResponseLoose(body, originalText) ==
    LET filterMatchState == body.filterMatchState
        isBlocked == filterMatchState >= 2
        filterResults == FilterResultsOf(body)
        sanitizedText ==
            IF Truthy(DeidentifiedText(filterResults))
            THEN DeidentifiedText(filterResults)
            ELSE originalText
    IN  [isSafe |-> ~isBlocked,
         blocked |-> isBlocked,
         matchState |-> filterMatchState,
         sanitizedText |-> IF isBlocked THEN originalText ELSE sanitizedText,
         details |-> parseDetails(filterResults),
         rawResponse |-> "apiResponse"]

parseResponse(body, originalText) ==
    LET filterMatchState == body.filterMatchState
        isBlocked == filterMatchState = 2
        filterResults == FilterResultsOf(body)
        sanitizedText ==
            IF Truthy(DeidentifiedText(filterResults))
            THEN DeidentifiedText(filterResults)
            ELSE originalText
    IN  [isSafe |-> ~isBlocked,
         blocked |-> isBlocked,
         matchState |-> filterMatchState,
         sanitizedText |-> IF isBlocked THEN originalText ELSE sanitizedText,
         details |-> parseDetails(filterResults),
         rawResponse |-> "apiResponse"]

\* the catch block of sanitizePrompt and sanitizeResponse
FailOpenBlocked(text) ==
    [isSafe |-> FALSE, blocked |-> TRUE, matchState |-> 0,
     sanitizedText |-> text, details |-> NoDetails, rawResponse |-> "error"]

FailOpen(text) ==
    [isSafe |-> TRUE, blocked |-> FALSE, matchState |-> 0,
     sanitizedText |-> text, details |-> NoDetails, rawResponse |-> "error"]

\* whether the part of the try block after the token is there throws: the
\* fetch rejects, !response.ok, response.json() rejects, or parseResponse throws
FetchThrows(response) ==
    \/ response.kind # "ok"
    \/ parseResponseThrows(response.body)

\* what sanitizePrompt / sanitizeResponse resolve with once the fetch ended
SanitizeResult(response, text) ==
    IF FetchThrows(response)
    THEN FailOpen(text)
    ELSE parseResponse(response.body, text)

\* what has not been computed yet
NoVerdict ==
    [isSafe |-> FALSE, blocked |-> FALSE, matchState |-> Undefined,
     sanitizedText |-> EmptyText, details |-> NoDetails, rawResponse |-> "none"]

SanitizeSettleRethrow(threw, value, text) ==
    IF threw
    THEN [raised |-> TRUE, verdict |-> NoVerdict]
    ELSE [raised |-> FALSE, verdict |-> value]

\* the try/catch of sanitizePrompt and sanitizeResponse: whatever the try
\* block throws is caught and answered with the fail-open verdict
SanitizeSettle(threw, value, text) ==
    IF threw
    THEN [raised |-> FALSE, verdict |-> FailOpen(text)]
    ELSE [raised |-> FALSE, verdict |-> value]

\* templateId || process.env.MODEL_ARMOR_*_TEMPLATE || default; the environment
\* default is left unset
DefaultTemplate(kind) == IF kind = "prompt" THEN "ma-all-med" ELSE "ma-all-low"
ResolveTemplate(kind, templateId) ==
    IF templateId # "" THEN templateId ELSE DefaultTemplate(kind)

SanitizeKinds == {"prompt", "response"}

IdleSan ==
    [pc |-> "idle", kind |-> "prompt", text |-> EmptyText, template |-> "",
     authFailed |-> FALSE, response |-> FetchFailure("network_error"),
     raised |-> FALSE, verdict |-> NoVerdict]

NoCalls ==
    [tokenCalls |-> 0, sanitizePrompt |-> 0, sanitizeResponse |-> 0,
     classifierPosts |-> 0, agent_engine |-> 0, local_backend |-> 0]

\* sanitizePrompt(text, templateId) / sanitizeResponse(text, templateId) up to
\* the first suspension: the template is resolved and getAccessToken is called
SanitizeBegin(kind, text, templateId) ==
    /\ san.pc = "idle"
    /\ san' = [IdleSan EXCEPT !.pc = "auth", !.kind = kind, !.text = text,
                              !.template = ResolveTemplate(kind, templateId)]
    /\ net' = [net EXCEPT ![IF kind = "prompt" THEN "sanitizePrompt"
                            ELSE "sanitizeResponse"] = @ + 1,
                          !.tokenCalls = @ + 1]
    /\ GetAccessTokenBegin("client")

\* getAccessToken has settled: with a token the POST to the classifier is
\* sent; if it raised, the catch block answers
SanitizeAuthDone ==
    /\ san.pc = "auth"
    /\ call["client"].pc \in {"returned", "raised"}
    /\ IF call["client"].pc = "returned"
       THEN /\ san' = [san EXCEPT !.pc = "fetching"]
            /\ net' = [net EXCEPT !.classifierPosts = @ + 1]
       ELSE /\ LET r == SanitizeSettle(TRUE, NoVerdict, san.text)
               IN  san' = [san EXCEPT !.pc = "done", !.authFailed = TRUE,
                                      !.raised = r.raised,
                                      !.verdict = r.verdict]
            /\ net' = net
    /\ call' = [call EXCEPT !["client"] = IdleCall]
    /\ UNCHANGED <<now, cachedAuth, issued, lastExchangeAt>>

\* the POST has ended with `response`
SanitizeFetchDone(response) ==
    /\ san.pc = "fetching"
    /\ LET threw == FetchThrows(response)
           value == IF threw THEN NoVerdict
                    ELSE parseResponse(response.body, san.text)
           r == SanitizeSettle(threw, value, san.text)
       IN  san' = [san EXCEPT !.pc = "done", !.response = response,
                              !.raised = r.raised, !.verdict = r.verdict]
    /\ UNCHANGED net
    /\ UNCHANGED authVars

----------------------------------------------------------------------------
(* Configuration *)

\* process.env.ENABLE_MODEL_ARMOR: unset, or a string
Unset == "<unset>"
EnvValues == {Unset, "true", "True", "false"}

\* String.prototype.toLowerCase on the values above
toLowerCase(str) ==
    CASE str = "True" -> "true"
      [] str = "TRUE" -> "true"
      [] str = "False" -> "false"
      [] OTHER -> str

isModelArmorEnabledWhenSet == env # Unset

\* process.env.ENABLE_MODEL_ARMOR?.toLowerCase() === 'true'
isModelArmorEnabled ==
    IF env = Unset THEN FALSE ELSE toLowerCase(env) = "true"

SAFETY_TEMPLATES ==
    [conservative |-> [prompt |-> "ma-all-high", response |-> "ma-rai-high"],
     balanced |-> [prompt |-> "ma-all-med", response |-> "ma-all-low"],
     permissive |-> [prompt |-> "ma-pijb-med", response |-> "ma-rai-low"],
     pii_focused |-> [prompt |-> "ma-sdp-inspect", response |-> "ma-sdp-deid"],
     content_moderation |-> [prompt |-> "ma-rai-high", response |-> "ma-rai-med"]]

\* safetyProfile of the request body; Unset takes the destructuring default
Profiles == {Unset, "pii_focused", "pii-focused", "toString"}
ProfileOf(safetyProfile) ==
    IF safetyProfile = Unset THEN "balanced" ELSE safetyProfile

\* SAFETY_TEMPLATES is an object literal, so a lookup by a name it inherits
\* from Object.prototype yields a value, one with neither a `prompt` nor a
\* `response` property (both read as undefined, written "")
INHERITED_KEYS ==
    {"toString", "constructor", "valueOf", "hasOwnProperty", "__proto__"}
InheritedTemplates == [prompt |-> "", response |-> ""]

\* getTemplates(profile) is SAFETY_TEMPLATES[profile]: undefined for a name
\* that is no key of the registry
HasTemplates(profile) ==
    profile \in DOMAIN SAFETY_TEMPLATES \cup INHERITED_KEYS
getTemplates(profile) ==
    IF profile \in DOMAIN SAFETY_TEMPLATES
    THEN SAFETY_TEMPLATES[profile]
    ELSE InheritedTemplates

\* process.env.NODE_ENV
NodeEnvs == {"development", "production"}

\* shouldUseAgentEngine()
shouldUseAgentEngine == useAgentEngine

Strategies == {"agent_engine", "local_backend"}
DeploymentType == IF shouldUseAgentEngine THEN "agent_engine" ELSE "local_backend"

----------------------------------------------------------------------------
(* collectStreamingResponse.  A read chunk is the sequence of the lines       *)
(* chunk.split('\n') yields; a line is what the loop body sees of it:         *)
(* whether it starts with 'data: ' after trim, whether the rest parses as     *)
(* JSON, whether content.parts[0] is there, its `incremental` flag and text.  *)

DataLine(incremental, text) ==
    [data |-> TRUE, json |-> TRUE, hasPart |-> TRUE,
     incremental |-> incremental, text |-> text]
\* a data line whose JSON has no content part
BareLine ==
    [data |-> TRUE, json |-> TRUE, hasPart |-> FALSE,
     incremental |-> FALSE, text |-> EmptyText]
\* a data line whose payload is not JSON
BadLine == [BareLine EXCEPT !.json = FALSE]
\* a line that does not start with 'data: '
OtherLine == [BareLine EXCEPT !.data = FALSE, !.json = FALSE]

NO_RESPONSE == <<"No response generated">>

\* fullText and lastValidJson?.content?.parts?.[0]?.text
EmptyAcc == [fullText |-> EmptyText, lastText |-> EmptyText]

ProcessLineAppendOnly(acc, line) ==
    IF ~line.data \/ ~line.json \/ ~line.hasPart THEN acc
    ELSE [fullText |-> acc.fullText \o line.text, lastText |-> line.text]

ProcessLineAbortOnBad(acc, line) ==
    IF line.data /\ ~line.json THEN EmptyAcc
    ELSE IF ~line.data THEN acc
    ELSE IF ~line.hasPart THEN [acc EXCEPT !.lastText = EmptyText]
    ELSE IF line.incremental
         THEN [fullText |-> acc.fullText \o line.text, lastText |-> line.text]
         ELSE [fullText |-> line.text, lastText |-> line.text]

ProcessLine(acc, line) ==
    IF ~line.data \/ ~line.json THEN acc
    ELSE LET last == IF line.hasPart THEN line.text ELSE EmptyText
         IN  IF ~line.hasPart THEN [acc EXCEPT !.lastText = last]
             ELSE IF line.incremental
                  THEN [fullText |-> acc.fullText \o line.text,
                        lastText |-> last]
                  ELSE [fullText |-> line.text, lastText |-> last]

RECURSIVE ProcessLines(_, _)
ProcessLines(acc, lines) ==
    IF lines = <<>> THEN acc
    ELSE ProcessLines(ProcessLine(acc, Head(lines)), Tail(lines))

RECURSIVE ProcessChunks(_, _)
ProcessChunks(acc, chunks) ==
    IF chunks = <<>> THEN acc
    ELSE ProcessChunks(ProcessLines(acc, Head(chunks)), Tail(chunks))

collectStreamingResponseNoGuard(chunks) ==
    ProcessChunks(EmptyAcc, chunks).fullText

\* fullText || lastValidJson?.content?.parts?.[0]?.text || 'No response generated'
collectStreamingResponse(chunks) ==
    LET acc == ProcessChunks(EmptyAcc, chunks)
    IN  IF Truthy(acc.fullText) THEN acc.fullText
        ELSE IF Truthy(acc.lastText) THEN acc.lastText
        ELSE NO_RESPONSE

\* The aggregator on its own: a response body is read chunk by chunk until
\* the reader reports done, then the aggregated text is returned.
FragmentTexts == {EmptyText, <<"Hel">>, <<"lo">>, <<"Hello world">>}
Lines ==
    {DataLine(i, t) : i \in BOOLEAN, t \in FragmentTexts}
    \cup {BareLine, BadLine, OtherLine}

\* the lines of one read chunk
ChunksUpTo(n) ==
    UNION {[1..k -> Lines] : k \in 0..n}

RECURSIVE LineCount(_)
LineCount(chunks) ==
    IF chunks = <<>> THEN 0
    ELSE Len(Head(chunks)) + LineCount(Tail(chunks))

\* sent: the lines the backend has written to the body so far; chunks: what
\* the reads have yielded of them; cut: the last read ended inside a line
IdleAgg ==
    [pc |-> "reading", chunks |-> <<>>, result |-> EmptyText,
     sent |-> <<>>, cut |-> FALSE]

\* A read that ends inside the payload of a data line yields, by
\* chunk.split('\n'), the head of the line as its last element ('data: ' and
\* an unfinished JSON text); the next read yields the tail as its first
\* element, which does not start with 'data: '.
HeadPiece == BadLine
TailPiece == OtherLine
PendingTail == IF agg.cut THEN <<TailPiece>> ELSE <<>>

\* reader.read() resolves with a chunk that ends at the end of a line
AggRead ==
    /\ agg.pc = "reading"
    /\ Len(agg.chunks) < MaxLines
    /\ \E chunk \in ChunksUpTo(MaxLines - Len(agg.sent)) :
          agg' = [agg EXCEPT !.chunks = Append(@, PendingTail \o chunk),
                            !.sent = @ \o chunk,
                            !.cut = FALSE]

\* reader.read() resolves with a chunk that ends inside a data line
AggReadCut ==
    /\ agg.pc = "reading"
    /\ Len(agg.chunks) < MaxLines - 1
    /\ Len(agg.sent) < MaxLines
    /\ \E line \in {l \in Lines : l.data /\ l.json} :
          agg' = [agg EXCEPT !.chunks = Append(@, PendingTail \o <<HeadPiece>>),
                            !.sent = Append(@, line),
                            !.cut = TRUE]

\* reader.read() resolves with done once the whole body has been read: the
\* function returns
AggClose ==
    /\ agg.pc = "reading"
    /\ ~agg.cut
    /\ agg' = [agg EXCEPT !.pc = "closed",
                          !.result = collectStreamingResponse(agg.chunks)]

\* the next response body
AggAgain ==
    /\ agg.pc = "closed"
    /\ agg' = IdleAgg

----------------------------------------------------------------------------
(* generateAIResponse, callAgentEngine, callLocalBackend *)

Answer == <<"It's", "sunny.">>
\* JSON.stringify(data) of an Agent Engine answer without a text part
JSON_STRINGIFIED == <<"{\"candidates\":[]}">>

\* how the backend request ends: the fetch rejects, the status is not 2xx,
\* response.json() rejects, response.body is null, or a body arrives: the
\* text part of the JSON answer (Agent Engine), the read chunks (local backend)
BackendFailure(kind) == [kind |-> kind, text |-> EmptyText, chunks |-> <<>>]
AgentAnswers ==
    {[kind |-> "ok", text |-> t, chunks |-> <<>>] : t \in {EmptyText, Answer}}
LocalStreams ==
    {<<>>,
     <<<<DataLine(TRUE, <<"It's">>), OtherLine>>,
       <<DataLine(TRUE, <<"sunny.">>), OtherLine>>>>,
     <<<<DataLine(TRUE, <<"It's">>), DataLine(TRUE, <<"sunny.">>),
         DataLine(FALSE, Answer)>>>>,
     <<<<BadLine>>, <<OtherLine, BareLine>>>>}
LocalAnswers ==
    {[kind |-> "ok", text |-> EmptyText, chunks |-> c] : c \in LocalStreams}
BackendOutcomes(strategy) ==
    IF strategy = "agent_engine"
    THEN {BackendFailure(k) : k \in {"network_error", "http_error", "bad_json"}}
         \cup AgentAnswers
    ELSE {BackendFailure(k) : k \in {"network_error", "http_error", "no_body"}}
         \cup LocalAnswers

\* data.candidates[0].content.parts[0].text, else JSON.stringify(data)
AgentEngineText(outcome) ==
    IF Truthy(outcome.text) THEN outcome.text ELSE JSON_STRINGIFIED

IdleGen ==
    [pc |-> "idle", strategy |-> "agent_engine", message |-> EmptyText,
     result |-> EmptyText, error |-> ""]

\* getAuthHeaders(): a bearer credential from the credential cache for the
\* managed service, no credential for the self-hosted backend
NeedsCredential(strategy) == strategy = "agent_engine"

\* generateAIResponse(prompt) up to its first suspension: the strategy is
\* chosen by shouldUseAgentEngine(), the payload is formatted, getAuthHeaders
\* is called
GenBegin(message) ==
    LET strategy == DeploymentType
    IN  IF NeedsCredential(strategy)
        THEN /\ gen' = [IdleGen EXCEPT !.pc = "auth", !.strategy = strategy,
                                       !.message = message]
             /\ net' = [net EXCEPT !.tokenCalls = @ + 1]
             /\ GetAccessTokenBegin("backend")
        ELSE /\ gen' = [IdleGen EXCEPT !.pc = "headers", !.strategy = strategy,
                                       !.message = message]
             /\ net' = net
             /\ UNCHANGED authVars

\* getAuthHeaders has settled: the request is sent, or the error propagates
GenAuthDoneSwallow ==
    /\ gen.pc \in {"auth", "headers"}
    /\ gen.pc = "auth" => call["backend"].pc \in {"returned", "raised"}
    /\ gen' = [gen EXCEPT !.pc = "fetching"]
    /\ net' = [net EXCEPT ![gen.strategy] = @ + 1]
    /\ call' = [call EXCEPT !["backend"] = IdleCall]
    /\ UNCHANGED <<now, cachedAuth, issued, lastExchangeAt>>
    /\ UNCHANGED <<san, req, env, useAgentEngine, nodeEnv>>

GenAuthDone ==
    /\ gen.pc \in {"auth", "headers"}
    /\ IF gen.pc = "headers"
       THEN /\ gen' = [gen EXCEPT !.pc = "fetching"]
            /\ net' = [net EXCEPT ![gen.strategy] = @ + 1]
            /\ UNCHANGED authVars
       ELSE /\ call["backend"].pc \in {"returned", "raised"}
            /\ IF call["backend"].pc = "returned"
               THEN /\ gen' = [gen EXCEPT !.pc = "fetching"]
                    /\ net' = [net EXCEPT ![gen.strategy] = @ + 1]
               ELSE /\ gen' = [gen EXCEPT !.pc = "failed",
                                          !.error = "auth_error"]
                    /\ net' = net
            /\ call' = [call EXCEPT !["backend"] = IdleCall]
            /\ UNCHANGED <<now, cachedAuth, issued, lastExchangeAt>>
    /\ UNCHANGED <<san, req, env, useAgentEngine, nodeEnv>>

GenFetchDoneRetry(outcome) ==
    /\ gen.pc = "fetching"
    /\ IF outcome.kind = "http_error" /\ net[gen.strategy] < 2
       THEN /\ gen' = gen
            /\ net' = [net EXCEPT ![gen.strategy] = @ + 1]
       ELSE /\ gen' =
                 IF outcome.kind # "ok"
                 THEN [gen EXCEPT !.pc = "failed", !.error = outcome.kind]
                 ELSE [gen EXCEPT !.pc = "done",
                         !.result = IF gen.strategy = "agent_engine"
                                    THEN AgentEngineText(outcome)
                                    ELSE collectStreamingResponse(outcome.chunks)]
            /\ net' = net
    /\ UNCHANGED <<san, req, env, useAgentEngine, nodeEnv>>
    /\ UNCHANGED authVars

\* the request has ended with `outcome`
GenFetchDone(outcome) ==
    /\ gen.pc = "fetching"
    /\ gen' =
         IF outcome.kind # "ok"
         THEN [gen EXCEPT !.pc = "failed", !.error = outcome.kind]
         ELSE [gen EXCEPT !.pc = "done",
                 !.result = IF gen.strategy = "agent_engine"
                            THEN AgentEngineText(outcome)
                            ELSE collectStreamingResponse(outcome.chunks)]
    /\ UNCHANGED <<san, net, req, env, useAgentEngine, nodeEnv>>
    /\ UNCHANGED authVars

----------------------------------------------------------------------------
(* The route handlers: POST of the chat route (aggregated JSON reply) and     *)
(* POST of the run_sse route (event stream)                                   *)

Endpoints == {"chat", "stream"}

PROMPT_BLOCK_MESSAGE ==
    <<"I cannot process that request due to safety concerns. Please rephrase your question.">>
STREAM_BLOCK_MESSAGE ==
    <<"I cannot process that request due to safety concerns. Please rephrase your question in a more appropriate manner.">>
GENERATION_ERROR_MESSAGE ==
    <<"I'm experiencing technical difficulties. Please try again later.">>
RESPONSE_BLOCK_MESSAGE ==
    <<"I apologize, but I cannot provide that response due to safety policies.">>
INTERNAL_ERROR_MESSAGE ==
    <<"I apologize, but I encountered an error. Please try again.">>

\* `null` where details are expected
NullDetails ==
    [sensitiveData |-> "null", promptInjection |-> "null",
     maliciousUrls |-> "null", responsibleAI |-> NoRai]

\* A reply: the HTTP status and the fields of its body.  A field the body does
\* not carry is "absent" (blocked, reason, error), EmptyText with hasResponse
\* FALSE (response) or NullDetails (safetyDetails); events counts the events
\* of an event-stream reply, stream lists them in the order they were
\* enqueued, and closed tells whether the stream has been closed.
NoReply ==
    [status |-> 0, error |-> "absent", hasResponse |-> FALSE,
     response |-> EmptyText, blocked |-> "absent", reason |-> "absent",
     hasSafetyDetails |-> FALSE, promptDetails |-> NullDetails,
     responseDetails |-> NullDetails, errorDetail |-> "absent", events |-> 0,
     stream |-> <<>>, closed |-> FALSE]

\* one event of an event stream: data: {content: {parts: [{text}]}, blocked}
StreamEvent(text, blocked) == [text |-> text, blocked |-> blocked]

\* { error: 'Message is required' }, status 400
ValidationReply ==
    [NoReply EXCEPT !.status = 400, !.error = "Message is required"]

\* the outer catch of the chat route
InternalErrorReply ==
    [NoReply EXCEPT !.status = 500, !.error = "Internal server error",
                    !.hasResponse = TRUE, !.response = INTERNAL_ERROR_MESSAGE]

PromptBlockedReplyNoDetails(promptSafety) ==
    [NoReply EXCEPT !.status = 200, !.hasResponse = TRUE,
                    !.response = PROMPT_BLOCK_MESSAGE, !.blocked = "true",
                    !.reason = "unsafe_prompt", !.hasSafetyDetails = TRUE]

PromptBlockedReply(promptSafety) ==
    [NoReply EXCEPT !.status = 200, !.hasResponse = TRUE,
                    !.response = PROMPT_BLOCK_MESSAGE, !.blocked = "true",
                    !.reason = "unsafe_prompt", !.hasSafetyDetails = TRUE,
                    !.promptDetails = promptSafety.details,
                    !.responseDetails = NullDetails]

\* the catch around generateAIResponse
GenerationErrorReply(error) ==
    [NoReply EXCEPT !.status = 500, !.hasResponse = TRUE,
                    !.response = GENERATION_ERROR_MESSAGE, !.blocked = "true",
                    !.reason = "generation_error", !.errorDetail = error]

\* promptSafety?.details || null
DetailsOrNull(has, safety) == IF has THEN safety.details ELSE NullDetails

ResponseBlockedReplyLeaky(hasPrompt, promptSafety, responseSafety) ==
    [NoReply EXCEPT !.status = 200, !.hasResponse = TRUE,
                    !.response = responseSafety.sanitizedText,
                    !.blocked = "true",
                    !.reason = "unsafe_response", !.hasSafetyDetails = TRUE,
                    !.promptDetails = DetailsOrNull(hasPrompt, promptSafety),
                    !.responseDetails = responseSafety.details]

ResponseBlockedReply(hasPrompt, promptSafety, responseSafety) ==
    [NoReply EXCEPT !.status = 200, !.hasResponse = TRUE,
                    !.response = RESPONSE_BLOCK_MESSAGE, !.blocked = "true",
                    !.reason = "unsafe_response", !.hasSafetyDetails = TRUE,
                    !.promptDetails = DetailsOrNull(hasPrompt, promptSafety),
                    !.responseDetails = responseSafety.details]

FinalReplySanitized(aiResponse, hasPrompt, promptSafety, hasResponse, responseSafety) ==
    [NoReply EXCEPT !.status = 200, !.hasResponse = TRUE,
                    !.response = IF hasResponse
                                 THEN responseSafety.sanitizedText
                                 ELSE aiResponse,
                    !.blocked = "false", !.hasSafetyDetails = TRUE,
                    !.promptDetails = DetailsOrNull(hasPrompt, promptSafety),
                    !.responseDetails =
                        DetailsOrNull(hasResponse, responseSafety)]

FinalReply(aiResponse, hasPrompt, promptSafety, hasResponse, responseSafety) ==
    [NoReply EXCEPT !.status = 200, !.hasResponse = TRUE,
                    !.response = aiResponse, !.blocked = "false",
                    !.hasSafetyDetails = TRUE,
                    !.promptDetails = DetailsOrNull(hasPrompt, promptSafety),
                    !.responseDetails =
                        DetailsOrNull(hasResponse, responseSafety)]

\* the one-event stream of the run_sse route: the event is enqueued and the
\* stream closed
StreamBlockedReplyOpen(promptSafety) ==
    [NoReply EXCEPT !.status = 200, !.hasResponse = TRUE,
                    !.response = STREAM_BLOCK_MESSAGE, !.blocked = "true",
                    !.hasSafetyDetails = TRUE,
                    !.promptDetails = promptSafety.details, !.events = 1,
                    !.stream = <<StreamEvent(STREAM_BLOCK_MESSAGE, TRUE)>>]

StreamBlockedReply(promptSafety) ==
    [NoReply EXCEPT !.status = 200, !.hasResponse = TRUE,
                    !.response = STREAM_BLOCK_MESSAGE, !.blocked = "true",
                    !.hasSafetyDetails = TRUE,
                    !.promptDetails = promptSafety.details, !.events = 1,
                    !.stream = <<StreamEvent(STREAM_BLOCK_MESSAGE, TRUE)>>,
                    !.closed = TRUE]

\* createValidationError(...) of the run_sse route
StreamValidationReply ==
    [NoReply EXCEPT !.status = 400, !.error = "Invalid request format"]

\* createInternalServerError(...) of the run_sse route
StreamErrorReply(error) ==
    [NoReply EXCEPT !.status = 500,
                    !.error = "Failed to process streaming request",
                    !.errorDetail = error]

\* the stream a deployment handler answers with
StreamedReply(text) ==
    [NoReply EXCEPT !.status = 200, !.hasResponse = TRUE, !.response = text,
                    !.events = 1, !.stream = <<StreamEvent(text, FALSE)>>,
                    !.closed = TRUE]

IdleReq ==
    [pc |-> "idle", endpoint |-> "chat", bodyOk |-> TRUE,
     message |-> EmptyText, safetyProfile |-> Unset,
     sanitizedInput |-> EmptyText,
     hasPromptSafety |-> FALSE, promptSafety |-> NoVerdict,
     hasResponseSafety |-> FALSE, responseSafety |-> NoVerdict,
     aiResponse |-> EmptyText, reply |-> NoReply]

SanitizedOrOriginal(safety, message) == message

\* promptSafety.sanitizedText || message
SanitizedOr(safety, message) ==
    IF Truthy(safety.sanitizedText) THEN safety.sanitizedText ELSE message

\* a request arrives; the handler awaits its body
Arrive ==
    /\ req.pc \in {"idle", "done"}
    /\ \/ \E m \in Messages, p \in Profiles :
             req' = [IdleReq EXCEPT !.pc = "received", !.endpoint = "chat",
                                    !.message = m, !.safetyProfile = p]
       \/ \E m \in Messages :
             req' = [IdleReq EXCEPT !.pc = "received", !.endpoint = "stream",
                                    !.message = m]
       \/ \E e \in Endpoints :
             req' = [IdleReq EXCEPT !.pc = "received", !.endpoint = e,
                                    !.bodyOk = FALSE]
    /\ gen' = IdleGen
    /\ san' = IdleSan
    /\ net' = NoCalls
    /\ UNCHANGED <<env, useAgentEngine, nodeEnv>>
    /\ UNCHANGED authVars

\* chat route, from the parsed body to the first outbound call
ChatValidate ==
    /\ req.pc = "received" /\ req.endpoint = "chat"
    /\ IF ~req.bodyOk
       THEN /\ req' = [req EXCEPT !.pc = "done", !.reply = InternalErrorReply]
            /\ UNCHANGED <<san, net, gen>>
            /\ UNCHANGED authVars
       ELSE IF ~Truthy(req.message)
       THEN /\ req' = [req EXCEPT !.pc = "done", !.reply = ValidationReply]
            /\ UNCHANGED <<san, net, gen>>
            /\ UNCHANGED authVars
       ELSE IF isModelArmorEnabled
       THEN IF ~HasTemplates(ProfileOf(req.safetyProfile))
            THEN /\ req' = [req EXCEPT !.pc = "done",
                                       !.reply = InternalErrorReply]
                 /\ UNCHANGED <<san, net, gen>>
                 /\ UNCHANGED authVars
            ELSE /\ SanitizeBegin("prompt", req.message,
                        getTemplates(ProfileOf(req.safetyProfile)).prompt)
                 /\ req' = [req EXCEPT !.pc = "prompt",
                                       !.sanitizedInput = req.message]
                 /\ UNCHANGED gen
       ELSE /\ GenBegin(req.message)
            /\ req' = [req EXCEPT !.pc = "generating",
                                  !.sanitizedInput = req.message]
            /\ UNCHANGED san
    /\ UNCHANGED <<env, useAgentEngine, nodeEnv>>

\* chat route: sanitizePrompt has settled
ChatPromptDone ==
    /\ req.pc = "prompt" /\ req.endpoint = "chat"
    /\ san.pc = "done"
    /\ san' = IdleSan
    /\ IF san.raised
       THEN /\ req' = [req EXCEPT !.pc = "done", !.reply = InternalErrorReply]
            /\ UNCHANGED <<net, gen>>
            /\ UNCHANGED authVars
       ELSE IF san.verdict.blocked
       THEN /\ req' = [req EXCEPT !.pc = "done", !.hasPromptSafety = TRUE,
                                  !.promptSafety = san.verdict,
                                  !.reply = PromptBlockedReply(san.verdict)]
            /\ UNCHANGED <<net, gen>>
            /\ UNCHANGED authVars
       ELSE /\ GenBegin(SanitizedOr(san.verdict, req.message))
            /\ req' = [req EXCEPT !.pc = "generating",
                          !.hasPromptSafety = TRUE,
                          !.promptSafety = san.verdict,
                          !.sanitizedInput =
                              SanitizedOr(san.verdict, req.message)]
    /\ UNCHANGED <<env, useAgentEngine, nodeEnv>>

ChatGenDoneEager ==
    /\ req.pc = "generating" /\ req.endpoint = "chat"
    /\ gen.pc \in {"fetching", "done", "failed"}
    /\ IF gen.pc = "failed"
       THEN /\ req' = [req EXCEPT !.pc = "done",
                                  !.reply = GenerationErrorReply(gen.error)]
            /\ UNCHANGED <<san, net>>
            /\ UNCHANGED authVars
       ELSE /\ SanitizeBegin("response", gen.result,
                   getTemplates(ProfileOf(req.safetyProfile)).response)
            /\ req' = [req EXCEPT !.pc = "response", !.aiResponse = gen.result]
    /\ UNCHANGED <<gen, env, useAgentEngine, nodeEnv>>

\* chat route: generateAIResponse has settled
ChatGenDone ==
    /\ req.pc = "generating" /\ req.endpoint = "chat"
    /\ gen.pc \in {"done", "failed"}
    /\ IF gen.pc = "failed"
       THEN /\ req' = [req EXCEPT !.pc = "done",
                                  !.reply = GenerationErrorReply(gen.error)]
            /\ UNCHANGED <<san, net>>
            /\ UNCHANGED authVars
       ELSE IF isModelArmorEnabled
       THEN /\ SanitizeBegin("response", gen.result,
                   getTemplates(ProfileOf(req.safetyProfile)).response)
            /\ req' = [req EXCEPT !.pc = "response", !.aiResponse = gen.result]
       ELSE /\ req' = [req EXCEPT !.pc = "done", !.aiResponse = gen.result,
                          !.reply = FinalReply(gen.result, req.hasPromptSafety,
                                               req.promptSafety, FALSE,
                                               NoVerdict)]
            /\ UNCHANGED <<san, net>>
            /\ UNCHANGED authVars
    /\ UNCHANGED <<gen, env, useAgentEngine, nodeEnv>>

\* chat route: sanitizeResponse has settled
ChatResponseDone ==
    /\ req.pc = "response" /\ req.endpoint = "chat"
    /\ san.pc = "done"
    /\ san' = IdleSan
    /\ req' =
         IF san.raised
         THEN [req EXCEPT !.pc = "done", !.reply = InternalErrorReply]
         ELSE IF san.verdict.blocked
         THEN [req EXCEPT !.pc = "done", !.hasResponseSafety = TRUE,
                          !.responseSafety = san.verdict,
                          !.reply = ResponseBlockedReply(req.hasPromptSafety,
                                        req.promptSafety, san.verdict)]
         ELSE [req EXCEPT !.pc = "done", !.hasResponseSafety = TRUE,
                          !.responseSafety = san.verdict,
                          !.reply = FinalReply(req.aiResponse,
                                        req.hasPromptSafety, req.promptSafety,
                                        TRUE, san.verdict)]
    /\ UNCHANGED <<net, gen, env, useAgentEngine, nodeEnv>>
    /\ UNCHANGED authVars

\* parseStreamRequest(request): the body parses and carries a message
StreamRequestValid == req.bodyOk /\ Truthy(req.message)

\* handleAgentEngineStreamRequest / handleLocalBackendStreamRequest: the
\* handler of the configured deployment calls its backend with the message
HandleStreamRequest(message) == GenBegin(message)

\* run_sse route, from the parsed request to the first outbound call
StreamValidate ==
    /\ req.pc = "received" /\ req.endpoint = "stream"
    /\ IF ~StreamRequestValid
       THEN /\ req' = [req EXCEPT !.pc = "done",
                                  !.reply = StreamValidationReply]
            /\ UNCHANGED <<san, net, gen>>
            /\ UNCHANGED authVars
       ELSE IF isModelArmorEnabled
       THEN /\ SanitizeBegin("prompt", req.message,
                   getTemplates("balanced").prompt)
            /\ req' = [req EXCEPT !.pc = "prompt",
                                  !.sanitizedInput = req.message]
            /\ UNCHANGED gen
       ELSE /\ HandleStreamRequest(req.message)
            /\ req' = [req EXCEPT !.pc = "generating",
                                  !.sanitizedInput = req.message]
            /\ UNCHANGED san
    /\ UNCHANGED <<env, useAgentEngine, nodeEnv>>

\* run_sse route: sanitizePrompt has settled
StreamPromptDone ==
    /\ req.pc = "prompt" /\ req.endpoint = "stream"
    /\ san.pc = "done"
    /\ san' = IdleSan
    /\ IF san.raised
       THEN /\ HandleStreamRequest(req.message)
            /\ req' = [req EXCEPT !.pc = "generating"]
       ELSE IF san.verdict.blocked
       THEN /\ req' = [req EXCEPT !.pc = "done", !.hasPromptSafety = TRUE,
                                  !.promptSafety = san.verdict,
                                  !.reply = StreamBlockedReply(san.verdict)]
            /\ UNCHANGED <<net, gen>>
            /\ UNCHANGED authVars
       ELSE /\ HandleStreamRequest(SanitizedOr(san.verdict, req.message))
            /\ req' = [req EXCEPT !.pc = "generating",
                          !.hasPromptSafety = TRUE,
                          !.promptSafety = san.verdict,
                          !.sanitizedInput =
                              SanitizedOr(san.verdict, req.message)]
    /\ UNCHANGED <<env, useAgentEngine, nodeEnv>>

StreamGenDoneClassify ==
    /\ req.pc = "generating" /\ req.endpoint = "stream"
    /\ gen.pc \in {"done", "failed"}
    /\ IF gen.pc = "done" /\ isModelArmorEnabled
       THEN /\ SanitizeBegin("response", gen.result,
                   getTemplates("balanced").response)
            /\ req' = [req EXCEPT !.pc = "response", !.aiResponse = gen.result]
       ELSE /\ req' = [req EXCEPT !.pc = "done",
                                  !.reply = StreamErrorReply(gen.error)]
            /\ UNCHANGED <<san, net>>
            /\ UNCHANGED authVars
    /\ UNCHANGED <<gen, env, useAgentEngine, nodeEnv>>

\* run_sse route: the deployment handler has answered or thrown
StreamGenDone ==
    /\ req.pc = "generating" /\ req.endpoint = "stream"
    /\ gen.pc \in {"done", "failed"}
    /\ req' =
         IF gen.pc = "failed"
         THEN [req EXCEPT !.pc = "done", !.reply = StreamErrorReply(gen.error)]
         ELSE [req EXCEPT !.pc = "done", !.aiResponse = gen.result,
                          !.reply = StreamedReply(gen.result)]
    /\ UNCHANGED <<san, net, gen, env, useAgentEngine, nodeEnv>>
    /\ UNCHANGED authVars

\* the answers the classifier gives while a route is served
BlockingRai ==
    [present |-> TRUE, hasResult |-> TRUE, matchState |-> 2, hasTypes |-> TRUE,
     types |-> [NoTypes EXCEPT !.dangerous = 2]]
DeidSdp ==
    [present |-> TRUE, hasResult |-> TRUE, inspect |-> Missing, deid |-> 2,
     text |-> <<"my", "SSN", "is", "[REDACTED]">>]
BodyWith(m, fr) ==
    [hasResult |-> TRUE, filterMatchState |-> m, hasFilterResults |-> TRUE,
     filterResults |-> fr]
RouteResponses ==
    {FetchFailure(k) : k \in FetchKinds \ {"ok"}}
    \cup {FetchOk(BodyWith(2, [EmptyFilterResults EXCEPT !.rai = BlockingRai])),
          FetchOk([NoResultBody EXCEPT !.hasResult = TRUE,
                                       !.filterMatchState = 1]),
          FetchOk(BodyWith(1, [EmptyFilterResults EXCEPT !.sdp = DeidSdp])),
          FetchOk(BodyWith(2, [EmptyFilterResults EXCEPT !.sdp = DeidSdp])),
          FetchOk(BodyWith(2, [EmptyFilterResults EXCEPT
                                  !.sdp = [SdpAbsent EXCEPT !.present = TRUE]]))}

\* the awaited calls of the request in service settle
RouteExchange ==
    /\ \E c \in {"client", "backend"} :
          \/ ExchangeSucceeds(c)
          \/ ExchangeFails(c)
    /\ UNCHANGED <<san, net, env, useAgentEngine, nodeEnv, req, gen>>

RouteSanitizeAuthDone ==
    /\ SanitizeAuthDone
    /\ UNCHANGED <<env, useAgentEngine, nodeEnv, req, gen>>

RouteSanitizeFetchDone ==
    /\ san.pc = "fetching"
    /\ \E response \in RouteResponses : SanitizeFetchDone(response)
    /\ UNCHANGED <<env, useAgentEngine, nodeEnv, req, gen>>

RouteGenFetchDone ==
    /\ gen.pc = "fetching"
    /\ \E outcome \in BackendOutcomes(gen.strategy) : GenFetchDone(outcome)

AuthInit ==
    /\ now = 0
    /\ cachedAuth = NoAuth
    /\ issued = 0
    /\ lastExchangeAt = -1
    /\ call = [c \in Callers |-> IdleCall]

ClientInit ==
    /\ san = IdleSan
    /\ net = NoCalls

\* no request in service, the classifier on, the managed backend selected
RouteIdle ==
    /\ env = "true"
    /\ useAgentEngine = TRUE
    /\ nodeEnv = "production"
    /\ req = IdleReq
    /\ gen = IdleGen
    /\ agg = IdleAgg

InitAuth == AuthInit /\ ClientInit /\ RouteIdle

NextAuth ==
    \/ Tick
    \/ \E c \in DirectCallers : GetAccessTokenBegin(c)
    \/ \E c \in DirectCallers : ExchangeSucceeds(c)
    \/ \E c \in DirectCallers : ExchangeFails(c)
    \/ \E c \in DirectCallers : CallDone(c)

vars ==
    <<now, cachedAuth, issued, lastExchangeAt, call, san, net, env,
      useAgentEngine, nodeEnv, req, gen, agg>>

SpecAuth ==
    InitAuth /\ [][NextAuth /\ UNCHANGED <<clientVars, configVars, routeVars>>]_vars

----------------------------------------------------------------------------
(* The classifier client on its own: a caller classifies texts one after the  *)
(* other, and the classifier answers anything.                                *)

ClientTexts == Messages \ {EmptyText}
ClientTemplates == {"", "ma-sdp-deid"}

ClientCall ==
    /\ san.pc = "idle"
    /\ \E kind \in SanitizeKinds, text \in ClientTexts, t \in ClientTemplates :
        SanitizeBegin(kind, text, t)

ClientExchange ==
    /\ \/ ExchangeSucceeds("client")
       \/ ExchangeFails("client")
    /\ UNCHANGED clientVars

ClientFetchDone ==
    /\ san.pc = "fetching"
    /\ \E response \in ApiResponses : SanitizeFetchDone(response)

ClientReturnKeepsVerdict ==
    /\ san.pc = "done"
    /\ san' = [IdleSan EXCEPT !.verdict = san.verdict]
    /\ net' = NoCalls
    /\ UNCHANGED authVars

\* the caller has taken the verdict
ClientReturn ==
    /\ san.pc = "done"
    /\ san' = IdleSan
    /\ net' = NoCalls
    /\ UNCHANGED authVars

InitClient == AuthInit /\ ClientInit /\ RouteIdle

NextClient ==
    \/ ClientCall
    \/ ClientExchange
    \/ SanitizeAuthDone
    \/ ClientFetchDone
    \/ ClientReturn

SpecClient ==
    InitClient /\ [][NextClient /\ UNCHANGED <<configVars, routeVars>>]_vars

----------------------------------------------------------------------------
(* The deployment: the configuration is fixed when the process starts, and    *)
(* requests to either route are served one after the other.                   *)

Init ==
    /\ AuthInit
    /\ ClientInit
    /\ env \in EnvValues
    /\ useAgentEngine \in BOOLEAN
    /\ nodeEnv \in NodeEnvs
    /\ req = IdleReq
    /\ gen = IdleGen
    /\ agg = IdleAgg

Next ==
    \/ Arrive
    \/ ChatValidate
    \/ ChatPromptDone
    \/ ChatGenDone
    \/ ChatResponseDone
    \/ StreamValidate
    \/ StreamPromptDone
    \/ StreamGenDone
    \/ RouteExchange
    \/ RouteSanitizeAuthDone
    \/ RouteSanitizeFetchDone
    \/ GenAuthDone
    \/ RouteGenFetchDone

Spec == Init /\ [][Next /\ UNCHANGED agg]_vars

----------------------------------------------------------------------------
(* The aggregator on its own *)

InitAggregate ==
    /\ AuthInit
    /\ ClientInit
    /\ env = "true"
    /\ useAgentEngine = FALSE
    /\ nodeEnv = "production"
    /\ req = IdleReq
    /\ gen = IdleGen
    /\ agg = IdleAgg

NextAggregate ==
    \/ AggRead
    \/ AggReadCut
    \/ AggClose
    \/ AggAgain

SpecAggregate ==
    InitAggregate
    /\ [][NextAggregate
          /\ UNCHANGED <<authVars, clientVars, configVars, req, gen>>]_vars

----------------------------------------------------------------------------
(* C6: after a successful exchange at t0, every getAccessToken call issued    *)
(* before t0 + 55 minutes (3300000 ms) starts no exchange and returns the     *)
(* token of that exchange; a call issued at or after t0 + 55 minutes starts   *)
(* exactly one exchange.  t0 is the latest exchange completed when the call   *)
(* is issued.                                                                 *)
C6_CredentialReuse ==
    \A c \in Callers :
        (call[c].pc # "idle" /\ call[c].t0 >= 0) =>
            IF call[c].at < call[c].t0 + 3300000
            THEN /\ call[c].exchanges = 0
                 /\ call[c].pc = "returned"
                 /\ call[c].token = call[c].tok0
            ELSE call[c].exchanges = 1

\* one call served from the cache inside the window while another, issued at
\* or after the window's end, has refreshed
C6_Witness ==
    \E c, d \in DirectCallers :
        /\ call[c].pc = "returned" /\ call[c].t0 >= 0
        /\ call[c].at > call[c].t0 /\ call[c].at < call[c].t0 + 3300000
        /\ call[c].exchanges = 0
        /\ call[d].pc = "returned" /\ call[d].t0 >= 0
        /\ call[d].at >= call[d].t0 + 3300000
        /\ call[d].exchanges = 1 /\ call[d].token # call[d].tok0

(* C7: a token returned by getAccessToken is either the one the call's own    *)
(* exchange produced, or the cached token with more than 5 minutes (300000    *)
(* ms) of validity left when the call was issued; a call whose exchange       *)
(* failed raises and carries no token.                                        *)
C7_NoStaleToken ==
    \A c \in Callers :
        /\ call[c].pc = "returned" =>
              \/ /\ call[c].exchanges = 1
                 /\ call[c].token > call[c].tok0
                 /\ call[c].token # call[c].cache0.accessToken
              \/ /\ call[c].exchanges = 0
                 /\ call[c].cache0 # NoAuth
                 /\ call[c].token = call[c].cache0.accessToken
                 /\ call[c].cache0.expiresAt - call[c].at > 300000
        /\ call[c].pc = "raised" =>
              call[c].token = NoToken /\ call[c].exchanges = 1

\* a cached credential exists but is inside its last 5 minutes (or past its
\* expiry) when the call is issued, and the call returns a fresh token; another
\* call in the same situation fails and raises
C7_Witness ==
    \E c, d \in DirectCallers :
        /\ call[c].pc = "returned" /\ call[c].cache0 # NoAuth
        /\ call[c].cache0.expiresAt - call[c].at <= 300000
        /\ call[c].exchanges = 1
        /\ call[d].pc = "raised" /\ call[d].cache0 # NoAuth

----------------------------------------------------------------------------
(* C2: sanitizePrompt and sanitizeResponse never raise to the caller, and on  *)
(* every failure (the credential cannot be fetched, the request rejects, the  *)
(* status is not 2xx, the body is not JSON, or the body lacks an object the   *)
(* parser dereferences) they return {isSafe: true, blocked: false,            *)
(* matchState: 0, sanitizedText: the input text, details: {}}.                *)
C2_FailsOpen ==
    LET body == san.response.body
        fr == body.filterResults
        malformed ==
            \/ ~body.hasResult
            \/ body.hasFilterResults /\
                 \E k \in {"sdp", "piAndJailbreak", "maliciousUris", "rai"} :
                     fr[k].present /\ ~fr[k].hasResult
        failure ==
            \/ san.authFailed
            \/ san.response.kind \in {"network_error", "http_error", "bad_json"}
            \/ san.response.kind = "ok" /\ malformed
    IN  san.pc = "done" =>
            /\ ~san.raised
            /\ failure =>
                 /\ san.verdict.isSafe = TRUE
                 /\ san.verdict.blocked = FALSE
                 /\ san.verdict.matchState = 0
                 /\ san.verdict.sanitizedText = san.text
                 /\ san.verdict.details = NoDetails

\* the classifier answered 200 with a body that says "match" but whose rai
\* entry has no raiFilterResult, and the call has returned
C2_Witness ==
    /\ san.pc = "done" /\ ~san.authFailed
    /\ san.response.kind = "ok"
    /\ san.response.body.hasResult
    /\ san.response.body.filterMatchState = 2
    /\ san.response.body.hasFilterResults
    /\ san.response.body.filterResults.rai.present
    /\ ~san.response.body.filterResults.rai.hasResult
    /\ san.verdict.rawResponse = "error"

(* C3: whenever the classifier's response carries filterMatchState = 2, the   *)
(* verdict has blocked = true and sanitizedText equal to the original text,   *)
(* whatever category sub-results the response contains.                       *)
C3_MatchBlocksWithOriginalText ==
    (/\ san.pc = "done" /\ ~san.authFailed
     /\ san.response.kind = "ok"
     /\ san.response.body.hasResult
     /\ san.response.body.filterMatchState = 2)
    => /\ san.verdict.blocked = TRUE
       /\ san.verdict.sanitizedText = san.text

(* C4: whenever the classifier's response carries filterMatchState = 1, the   *)
(* verdict has blocked = false and sanitizedText equal to the de-identified   *)
(* text the response carries when it carries a non-empty one, and to the      *)
(* original text otherwise.                                                   *)
C4_NoMatchKeepsDeidentifiedText ==
    LET body == san.response.body
        sdp == body.filterResults.sdp
        hasDeid == /\ body.hasFilterResults /\ sdp.present /\ sdp.hasResult
                   /\ sdp.deid # Missing /\ sdp.text # EmptyText
    IN  (/\ san.pc = "done" /\ ~san.authFailed
         /\ san.response.kind = "ok"
         /\ body.hasResult
         /\ body.filterMatchState = 1)
        => /\ san.verdict.blocked = FALSE
           /\ san.verdict.sanitizedText =
                 IF hasDeid THEN sdp.text ELSE san.text

(* C5: every verdict the client returns, parsed from a response with any      *)
(* filterMatchState or produced by the catch block, has                       *)
(* blocked = (matchState = 2) and isSafe = ~blocked.                          *)
C5_VerdictInvariant ==
    (san.pc = "done" /\ ~san.raised) =>
        /\ san.verdict.blocked = (san.verdict.matchState = 2)
        /\ san.verdict.isSafe = ~san.verdict.blocked

\* a verdict parsed from a response whose filterMatchState is neither 0, 1 nor 2
C5_Witness ==
    /\ san.pc = "done"
    /\ san.verdict.rawResponse = "apiResponse"
    /\ san.verdict.matchState = 3
    /\ san.verdict.isSafe

----------------------------------------------------------------------------
(* Claims about the routes (specification Spec)                               *)

BackendCalls == net.agent_engine + net.local_backend

BlockMessage(endpoint) ==
    IF endpoint = "chat" THEN PROMPT_BLOCK_MESSAGE ELSE STREAM_BLOCK_MESSAGE

\* C1: on the chat route and on the run_sse route, when the classifier is
\* enabled and sanitizePrompt answers with a blocked verdict, no request to
\* either backend is made for that request, and the reply is the route's fixed
\* block message with blocked = true and the details of the prompt verdict.
C1_BlockedPromptStopsRequest ==
    /\ (/\ isModelArmorEnabled
        /\ req.pc = "prompt"
        /\ san.pc = "done" /\ ~san.raised /\ san.verdict.blocked)
       => (BackendCalls = 0 /\ gen = IdleGen)
    /\ (/\ isModelArmorEnabled
        /\ req.hasPromptSafety /\ req.promptSafety.blocked)
       => /\ req.pc = "done"
          /\ BackendCalls = 0
          /\ gen = IdleGen
          /\ call["backend"].pc = "idle"
          /\ req.reply.status = 200
          /\ req.reply.hasResponse
          /\ req.reply.response = BlockMessage(req.endpoint)
          /\ req.reply.blocked = "true"
          /\ req.reply.hasSafetyDetails
          /\ req.reply.promptDetails = req.promptSafety.details

C1_Witness ==
    /\ req.pc = "done"
    /\ req.endpoint = "stream"
    /\ req.hasPromptSafety /\ req.promptSafety.blocked
    /\ req.reply.events = 1
    /\ req.reply.promptDetails.responsibleAI.dangerous = "blocked"

\* C8: a chat request whose message is missing or empty is answered with
\* status 400 and a validation error, and nothing is requested on its behalf:
\* no credential, no classification, no backend request.
C8_EmptyMessageRejected ==
    (/\ req.endpoint = "chat"
     /\ req.pc # "idle"
     /\ req.bodyOk
     /\ req.message = EmptyText)
    => /\ req.pc \in {"received", "done"}
       /\ net = NoCalls
       /\ san = IdleSan
       /\ gen = IdleGen
       /\ call["client"].pc = "idle"
       /\ call["backend"].pc = "idle"
       /\ req.pc = "done"
          => /\ req.reply.status = 400
             /\ req.reply.error = "Message is required"
             /\ ~req.reply.hasResponse

C8_Witness ==
    /\ req.endpoint = "chat"
    /\ req.pc = "done"
    /\ req.bodyOk
    /\ req.message = EmptyText
    /\ req.reply.status = 400
    /\ env = "true"
    /\ cachedAuth # NoAuth

\* C9: when ENABLE_MODEL_ARMOR is unset or is not 'true' in any letter case,
\* sanitizePrompt and sanitizeResponse are never invoked for a request, and
\* the message handed to the backend is the message of the request.
C9_DisabledSkipsClassifier ==
    ~(env # Unset /\ toLowerCase(env) = "true")
    => /\ net.sanitizePrompt = 0
       /\ net.sanitizeResponse = 0
       /\ net.classifierPosts = 0
       /\ san = IdleSan
       /\ ~req.hasPromptSafety /\ ~req.hasResponseSafety
       /\ gen.pc # "idle" => gen.message = req.message
       /\ (req.pc \in {"generating", "response"}
           \/ (req.pc = "done" /\ BackendCalls > 0))
          => gen.pc # "idle"

C9_Witness ==
    /\ env = "false"
    /\ req.pc = "done"
    /\ req.endpoint = "chat"
    /\ req.message = <<"my", "SSN", "is", "123">>
    /\ gen.pc = "done"
    /\ gen.message = <<"my", "SSN", "is", "123">>
    /\ BackendCalls = 1
    /\ req.reply.blocked = "false"

NoVerdictBlocked ==
    /\ ~(req.hasPromptSafety /\ req.promptSafety.blocked)
    /\ ~(req.hasResponseSafety /\ req.responseSafety.blocked)

CalledOnceThroughConfigured ==
    /\ BackendCalls = 1
    /\ net[DeploymentType] = 1
    /\ gen.strategy = DeploymentType

ChatRequestValid ==
    /\ req.bodyOk
    /\ req.message # EmptyText
    /\ isModelArmorEnabled => HasTemplates(ProfileOf(req.safetyProfile))

----------------------------------------------------------------------------
(* Claims about the aggregator (specification SpecAggregate)                  *)

WellFormed(line) == line.data /\ line.json /\ line.hasPart

RECURSIVE Flatten(_)
Flatten(chunks) ==
    IF chunks = <<>> THEN <<>> ELSE Head(chunks) \o Flatten(Tail(chunks))

AllWellFormed(lines) == \A i \in 1..Len(lines) : WellFormed(lines[i])

\* the left fold of the fragments: an incremental fragment appends its text,
\* a final fragment replaces the accumulator
RECURSIVE LeftFold(_, _)
LeftFold(acc, lines) ==
    IF lines = <<>> THEN acc
    ELSE LeftFold(IF Head(lines).incremental THEN acc \o Head(lines).text
                  ELSE Head(lines).text,
                  Tail(lines))

\* C11 as stated: for every sequence of well-formed fragments the aggregator
\* returns the left fold (incremental appends, final replaces).
C11_AsStated ==
    (agg.pc = "closed" /\ AllWellFormed(Flatten(agg.chunks)))
    => agg.result = LeftFold(EmptyText, Flatten(agg.chunks))

\* C11 (amended): the aggregator returns the left fold (incremental appends,
\* final replaces) of the well-formed fragments its loop has read, in the
\* order read, when that fold is a non-empty text, and 'No response generated'
\* when the fold is empty.
C11_FoldOrGuard ==
    agg.pc = "closed"
    => LET fold == LeftFold(EmptyText,
                            SelectSeq(Flatten(agg.chunks), WellFormed))
       IN  agg.result = IF fold = EmptyText THEN NO_RESPONSE ELSE fold

C11_Witness ==
    /\ agg.pc = "closed"
    /\ Flatten(agg.chunks) = <<DataLine(TRUE, <<"Hel">>),
                               DataLine(TRUE, <<"lo">>),
                               DataLine(FALSE, <<"Hello world">>)>>
    /\ agg.result = <<"Hello world">>

----------------------------------------------------------------------------
(* Further claims about the routes (specification Spec)                       *)

\* the classification of the prompt has failed: the credential could not be
\* obtained, the POST was rejected or timed out, the status was not 2xx, or
\* the answer could not be read
PromptClassificationFailed ==
    /\ req.pc = "prompt"
    /\ san.pc = "done"
    /\ san.kind = "prompt"
    /\ san.authFailed \/ FetchThrows(san.response)

\* C12: when the classification of the prompt fails (credential exchange
\* failure, rejected or timed-out POST, HTTP 500, unreadable answer), the
\* route neither rejects nor blocks the request: its next step starts the
\* generation with the message of the request, unmodified, and no reply yet.
C12_FailedClassificationProceeds ==
    [][PromptClassificationFailed
       => /\ req'.pc = "generating"
          /\ req'.reply = NoReply
          /\ req'.message = req.message
          /\ gen'.pc \in {"auth", "headers"}
          /\ gen'.message = req.message]_vars

C12_Witness ==
    /\ req.pc = "generating"
    /\ req.endpoint = "stream"
    /\ req.hasPromptSafety
    /\ req.promptSafety.rawResponse = "error"
    /\ ~req.promptSafety.blocked
    /\ gen.pc \in {"auth", "headers"}
    /\ gen.message = <<"my", "SSN", "is", "123">>

InFlight(pc) == pc \in {"auth", "headers", "fetching"}

\* C13: within one request the phases follow one another: while the prompt
\* is being classified no backend call has started, while the backend call is
\* in flight no classification is (and the prompt's, if any, is over), and the
\* response is classified only once the generation has completed.
C13_PhasesSequential ==
    /\ (san.pc # "idle" /\ san.kind = "prompt")
       => (gen = IdleGen /\ BackendCalls = 0 /\ req.pc = "prompt")
    /\ InFlight(gen.pc)
       => /\ san = IdleSan
          /\ req.pc = "generating"
          /\ net.sanitizeResponse = 0
          /\ isModelArmorEnabled => net.sanitizePrompt = 1
    /\ (san.pc # "idle" /\ san.kind = "response")
       => (gen.pc = "done" /\ req.pc = "response" /\ req.endpoint = "chat")
    /\ ~(call["client"].pc # "idle" /\ call["backend"].pc # "idle")

C13_Witness ==
    /\ san.pc = "fetching"
    /\ san.kind = "response"
    /\ gen.pc = "done"
    /\ net.sanitizePrompt = 1
    /\ BackendCalls = 1

\* C14: on the run_sse route a block of the prompt is the first and only
\* event of the stream: nothing is emitted before the decision, the stream
\* holds exactly one event, that event carries blocked = true and the block
\* text, the stream is closed, and no backend was called that could add
\* content to it.
C14_BlockIsOnlyEvent ==
    /\ (req.endpoint = "stream" /\ req.pc \in {"received", "prompt"})
       => req.reply = NoReply
    /\ (req.endpoint = "stream" /\ req.hasPromptSafety
        /\ req.promptSafety.blocked)
       => /\ req.pc = "done"
          /\ Len(req.reply.stream) = 1
          /\ req.reply.stream[1].blocked
          /\ req.reply.stream[1].text = STREAM_BLOCK_MESSAGE
          /\ req.reply.closed
          /\ req.reply.status = 200
          /\ BackendCalls = 0
          /\ gen = IdleGen

C14_Witness ==
    /\ req.endpoint = "stream"
    /\ req.pc = "done"
    /\ req.promptSafety.blocked
    /\ req.reply.stream = <<StreamEvent(STREAM_BLOCK_MESSAGE, TRUE)>>
    /\ req.reply.closed
    /\ net.sanitizePrompt = 1

\* C15: on the chat route a status that is not 2xx from the backend, through
\* either strategy, ends the request: the backend was requested exactly once,
\* the response is not classified, and the reply is a 5xx with the generic
\* apology text.
C15_BackendErrorIsFatal ==
    (req.endpoint = "chat" /\ gen.pc = "failed" /\ gen.error = "http_error")
    => /\ BackendCalls = 1
       /\ net[gen.strategy] = 1
       /\ net.sanitizeResponse = 0
       /\ san = IdleSan
       /\ ~req.hasResponseSafety
       /\ req.pc \in {"generating", "done"}
       /\ req.pc = "done"
          => /\ req.reply.status \in 500..599
             /\ req.reply.hasResponse
             /\ req.reply.response = GENERATION_ERROR_MESSAGE

C15_Witness ==
    /\ req.endpoint = "chat"
    /\ req.pc = "done"
    /\ gen.pc = "failed" /\ gen.error = "http_error"
    /\ gen.strategy = "local_backend"
    /\ isModelArmorEnabled
    /\ req.reply.status = 500

\* C16: the reply of the chat route to a failed generation carries the raw
\* error detail only when NODE_ENV is 'development'.
C16_ErrorDetailOnlyInDevelopment ==
    (/\ req.endpoint = "chat" /\ req.pc = "done"
     /\ gen.pc = "failed"
     /\ nodeEnv # "development")
    => req.reply.errorDetail = "absent"

\* C17: sanitizeResponse is never invoked for a request to the run_sse
\* route; it is invoked only for a request to the chat route, only with the
\* classifier enabled, and at most once.
C17_NoResponseClassificationOnStream ==
    /\ req.endpoint = "stream"
       => /\ net.sanitizeResponse = 0
          /\ ~req.hasResponseSafety
          /\ san.pc # "idle" => san.kind = "prompt"
          /\ req.pc # "response"
    /\ (net.sanitizeResponse > 0 \/ (san.pc # "idle" /\ san.kind = "response"))
       => /\ req.endpoint = "chat"
          /\ isModelArmorEnabled
          /\ net.sanitizeResponse = 1

C17_Witness ==
    /\ req.endpoint = "stream"
    /\ req.pc = "done"
    /\ isModelArmorEnabled
    /\ gen.pc = "done"
    /\ gen.result = Answer
    /\ net.sanitizePrompt = 1
    /\ net.sanitizeResponse = 0
    /\ req.reply.stream = <<StreamEvent(Answer, FALSE)>>

\* C18: on the chat route, when sanitizeResponse answers with a blocked
\* verdict the request ends with the fixed apology, blocked = true and the
\* details of both the prompt verdict and the response verdict; the generated
\* text is not in the reply.
C18_BlockedResponseWithheld ==
    (req.endpoint = "chat" /\ req.hasResponseSafety
     /\ req.responseSafety.blocked)
    => /\ req.pc = "done"
       /\ req.reply.status = 200
       /\ req.reply.hasResponse
       /\ req.reply.response = RESPONSE_BLOCK_MESSAGE
       /\ req.reply.response # req.aiResponse
       /\ req.reply.blocked = "true"
       /\ req.reply.reason = "unsafe_response"
       /\ req.reply.hasSafetyDetails
       /\ req.hasPromptSafety
       /\ req.reply.promptDetails = req.promptSafety.details
       /\ req.reply.responseDetails = req.responseSafety.details
       /\ req.reply.stream = <<>>
       /\ req.reply.errorDetail = "absent"

C18_Witness ==
    /\ req.endpoint = "chat"
    /\ req.pc = "done"
    /\ req.hasResponseSafety /\ req.responseSafety.blocked
    /\ req.aiResponse = Answer
    /\ req.reply.responseDetails.responsibleAI.dangerous = "blocked"
    /\ req.reply.promptDetails.sensitiveData # "absent"

\* the step a route takes once a classification has failed for want of a
\* credential: the request goes on (to generation after the prompt, to the
\* final reply after the response)
ClassifierCredentialFailureSwallowed ==
    (san.pc = "done" /\ san.authFailed)
    => /\ san.kind = "prompt"
          => /\ req'.pc = "generating"
             /\ gen'.message = req.message
       /\ san.kind = "response"
          => /\ req'.pc = "done"
             /\ req'.reply.status = 200
             /\ req'.reply.blocked = "false"
             /\ req'.reply.response = req.aiResponse

\* the step the backend call takes once its credential could not be obtained:
\* it fails, and no request is sent
BackendCredentialFailureRaised ==
    (gen.pc = "auth" /\ call["backend"].pc = "raised")
    => /\ gen'.pc = "failed"
       /\ gen'.error = "auth_error"
       /\ net' = net

\* C19: a credential failure while classifying is swallowed, the verdict is
\* the fail-open one and the request continues; a credential failure while
\* preparing the backend call fails the generation: no backend request is
\* sent and the request ends with a 5xx reply.
C19_CredentialFailureAsymmetry ==
    /\ []((san.pc = "done" /\ san.authFailed)
          => (~san.raised /\ ~san.verdict.blocked /\ san.verdict.isSafe))
    /\ []((gen.pc = "failed" /\ gen.error = "auth_error")
          => /\ BackendCalls = 0
             /\ req.pc \in {"generating", "done"}
             /\ ~req.hasResponseSafety
             /\ req.pc = "done"
                => (req.reply.status \in 500..599 /\ req.reply.stream = <<>>))
    /\ [][ClassifierCredentialFailureSwallowed
          /\ BackendCredentialFailureRaised]_vars

C19_Witness ==
    /\ req.endpoint = "chat"
    /\ req.pc = "done"
    /\ net.sanitizePrompt = 1 /\ net.classifierPosts = 0
    /\ req.hasPromptSafety /\ req.promptSafety.rawResponse = "error"
    /\ gen.pc = "failed" /\ gen.error = "auth_error"
    /\ net.tokenCalls = 2
    /\ req.reply.status = 500

\* C20: every reply of the chat route, whatever the outcome (answered,
\* prompt blocked, response blocked, generation failure, validation failure,
\* internal error), carries a `response` text and a `blocked` flag.
C20_UniformReplyShape ==
    (req.endpoint = "chat" /\ req.pc = "done")
    => /\ req.reply.hasResponse
       /\ req.reply.response # EmptyText
       /\ req.reply.blocked \in {"true", "false"}

----------------------------------------------------------------------------
(* Further claims about the aggregator (specification SpecAggregate)          *)

Malformed(line) == line.data /\ ~line.json

NotMalformed(line) == ~Malformed(line)

RECURSIVE WithoutMalformed(_)
WithoutMalformed(chunks) ==
    IF chunks = <<>> THEN <<>>
    ELSE <<SelectSeq(Head(chunks), NotMalformed)>> \o WithoutMalformed(Tail(chunks))

FoldOrGuard(lines) ==
    LET fold == LeftFold(EmptyText, lines)
    IN  IF fold = EmptyText THEN NO_RESPONSE ELSE fold

\* C21: a data line whose payload is not JSON is skipped and the reading goes
\* on: the result is the aggregation of the same stream without the malformed
\* lines, and every well-formed fragment before and after them is applied.
C21_MalformedLineSkipped ==
    (agg.pc = "closed"
     /\ \E i \in 1..Len(Flatten(agg.chunks)) :
           Malformed(Flatten(agg.chunks)[i]))
    => /\ agg.result = collectStreamingResponse(WithoutMalformed(agg.chunks))
       /\ agg.result =
            FoldOrGuard(SelectSeq(Flatten(WithoutMalformed(agg.chunks)),
                                  WellFormed))

C21_Witness ==
    /\ agg.pc = "closed"
    /\ Flatten(agg.chunks) = <<DataLine(TRUE, <<"Hel">>), BadLine,
                               DataLine(TRUE, <<"lo">>)>>
    /\ agg.result = <<"Hel", "lo">>

ReadFragments == SelectSeq(Flatten(agg.chunks), WellFormed)

\* C27 as stated: the guard string is returned only if no fragment arrived,
\* and whenever a well-formed fragment arrived the value returned is the
\* accumulated one.
C27_AsStated ==
    agg.pc = "closed"
    => /\ agg.result = NO_RESPONSE => ReadFragments = <<>>
       /\ ReadFragments # <<>>
          => agg.result = LeftFold(EmptyText, ReadFragments)

\* C27 (amended): the guard string is returned exactly when the text
\* accumulated at the close of the stream is empty, which is the case when no
\* fragment was read and also when the fragments read fold to the empty text;
\* in every other case the accumulated text is returned.
C27_GuardIffEmpty ==
    agg.pc = "closed"
    => LET fullText == ProcessChunks(EmptyAcc, agg.chunks).fullText
       IN  /\ fullText = LeftFold(EmptyText, ReadFragments)
           /\ ReadFragments = <<>> => agg.result = NO_RESPONSE
           /\ agg.result = NO_RESPONSE <=> fullText = EmptyText
           /\ fullText # EmptyText => agg.result = fullText

C27_Witness ==
    /\ agg.pc = "closed"
    /\ agg.chunks = <<<<DataLine(TRUE, <<"Hel">>)>>,
                      <<DataLine(FALSE, EmptyText)>>>>
    /\ agg.result = NO_RESPONSE

\* C28: the aggregated text is the same for every way the lines the backend
\* sent are cut into read chunks, cuts inside a line included: it is the
\* text aggregated from the same lines read as one chunk.
C28_ChunkingIndependent ==
    agg.pc = "closed"
    => agg.result = collectStreamingResponse(<<agg.sent>>)

----------------------------------------------------------------------------
(* Further claims about the classifier client (specification SpecClient)      *)

Label(m) ==
    IF m = 1 THEN "safe" ELSE IF m = 2 THEN "blocked" ELSE "not_assessed"

\* C22: match state 1 is labelled 'safe', 2 'blocked', anything else
\* 'not_assessed'; whatever categories and sub-categories the answer lacks,
\* the classification is not turned into an error and the verdict is blocked
\* exactly when filterMatchState is 2.
C22_AbsentCategoryHarmless ==
    (/\ san.pc = "done" /\ ~san.authFailed
     /\ san.response.kind = "ok"
     /\ san.response.body.hasResult)
    => LET body == san.response.body
           rai == FilterResultsOf(body).rai
       IN  /\ ~san.raised
           /\ san.verdict.rawResponse = "apiResponse"
           /\ san.verdict.blocked = (body.filterMatchState = 2)
           /\ (rai.present /\ rai.hasResult)
              => /\ san.verdict.details.responsibleAI.overall
                      = Label(rai.matchState)
                 /\ \A k \in RaiTypes :
                       san.verdict.details.responsibleAI[k]
                          = Label(OrZero(rai.types[k]))
           /\ ~rai.present => san.verdict.details.responsibleAI = NoRai

----------------------------------------------------------------------------
(* Further claims about the credential cache (specification SpecAuth)         *)

\* C23: getAccessToken calls that overlap while the cache is empty or expired
\* each run their own exchange; each returns the token of its own exchange;
\* the cache slot always holds the token and the expiry one completed exchange
\* wrote together; and the expiresAt in the slot never decreases.
C23_OverlappingRefreshes ==
    /\ [](\A c, d \in DirectCallers :
            (/\ c # d
             /\ call[c].pc = "returned" /\ call[c].exchanges = 1
             /\ call[d].pc = "returned" /\ call[d].exchanges = 1)
            => /\ call[c].token # call[d].token
               /\ call[c].token \in 1..issued)
    /\ [](cachedAuth # NoAuth
          => /\ cachedAuth.accessToken = issued
             /\ cachedAuth.expiresAt = lastExchangeAt + TOKEN_LIFETIME_MS)
    /\ [][cachedAuth # NoAuth
          => /\ cachedAuth' # NoAuth
             /\ cachedAuth'.expiresAt >= cachedAuth.expiresAt]_vars

\* two calls found the cache expired, both exchanged, the second to start
\* completed first, and each holds its own token
C23_Witness ==
    /\ call["c1"].pc = "returned" /\ call["c1"].exchanges = 1
    /\ call["c2"].pc = "returned" /\ call["c2"].exchanges = 1
    /\ call["c1"].cache0 # NoAuth /\ call["c2"].cache0 = call["c1"].cache0
    /\ call["c1"].at < call["c2"].at
    /\ call["c2"].token < call["c1"].token
    /\ cachedAuth.accessToken = call["c1"].token

\* C26: a failed token exchange (the provider raises, or answers without a
\* token) leaves the cache slot as it was, whether it held nothing, an expired
\* credential or a credential another call wrote meanwhile; and a call that
\* starts while the slot holds no valid credential, after a failure as at any
\* other time, starts an exchange of its own.
C26_FailedExchangeKeepsCache ==
    /\ [][\A c \in DirectCallers :
            (call[c].pc = "exchanging" /\ call'[c].pc = "raised")
            => cachedAuth' = cachedAuth]_vars
    /\ [][\A c \in DirectCallers :
            (call[c].pc = "idle" /\ call'[c].pc # "idle")
            => (call'[c].pc = "exchanging" <=> ~CacheValid(cachedAuth, now))]_vars

\* an exchange started on an expired credential has failed, and the expired
\* credential is still in the slot
C26_Witness ==
    /\ call["c1"].pc = "raised"
    /\ call["c1"].cache0 # NoAuth
    /\ cachedAuth = call["c1"].cache0
    /\ ~CacheValid(cachedAuth, now)

----------------------------------------------------------------------------
(* Further claims about the classifier client (specification SpecClient)      *)

\* the verdict sanitizePrompt / sanitizeResponse return for `text` when the
\* credential was fetched and the classifier's POST ended with `response`
VerdictFor(response, text) ==
    IF response.kind # "ok" \/ parseResponseThrows(response.body)
    THEN [isSafe |-> TRUE, blocked |-> FALSE, matchState |-> 0,
          sanitizedText |-> text, details |-> NoDetails, rawResponse |-> "error"]
    ELSE parseResponse(response.body, text)

----------------------------------------------------------------------------
(* Further claims about the routes (specification Spec)                       *)

\* the text the handler passes to its backend for the request in service
BackendMessage ==
    IF ~isModelArmorEnabled THEN req.message
    ELSE IF req.promptSafety.rawResponse = "error" THEN req.message
    ELSE IF req.promptSafety.sanitizedText # EmptyText
         THEN req.promptSafety.sanitizedText
         ELSE req.message

\* the de-identified text the classifier's answer carries, empty when the
\* answer is a failure or carries none
Rewrite(response) ==
    IF response.kind = "ok" /\ ~parseResponseThrows(response.body)
    THEN DeidentifiedText(FilterResultsOf(response.body))
    ELSE EmptyText

\* C25: on both routes the text a backend is called with is the classifier's
\* sanitized text when the prompt verdict is not blocked and carries a
\* non-empty one, and the original message when the classifier is disabled,
\* failed open or returned no rewrite; no backend is called with another text.
C25_BackendGetsSanitizedOrOriginal ==
    /\ [](gen.pc # "idle"
          => /\ gen.message = BackendMessage
             /\ gen.message \in {req.message} \cup (DeidTexts \ {EmptyText})
             /\ isModelArmorEnabled
                => req.hasPromptSafety /\ ~req.promptSafety.blocked)
    /\ [][(req.pc = "prompt" /\ req'.pc = "generating")
          => gen'.message =
               IF ~san.authFailed /\ Rewrite(san.response) # EmptyText
               THEN Rewrite(san.response)
               ELSE req.message]_vars

\* the backend has been called with the classifier's rewrite of the message
C25_Witness ==
    /\ BackendCalls >= 1
    /\ req.message = <<"my", "SSN", "is", "123">>
    /\ gen.message = <<"my", "SSN", "is", "[REDACTED]">>
    /\ req.promptSafety.rawResponse = "apiResponse"

\* whether a classifier verdict of the request in service was blocked
VerdictBlocked ==
    \/ req.hasPromptSafety /\ req.promptSafety.blocked
    \/ req.hasResponseSafety /\ req.responseSafety.blocked

\* C29: the reply of the chat route has blocked = true exactly when the prompt
\* verdict or the response verdict was blocked; a request whose generation
\* failed is not reported as blocked.
C29_BlockedIffVerdictBlocked ==
    (req.endpoint = "chat" /\ req.pc = "done")
    => (req.reply.blocked = "true" <=> VerdictBlocked)

\* the chat request in service names a profile and has passed validation with
\* the classifier enabled
ProfiledChatRequest ==
    /\ req.endpoint = "chat" /\ req.pc \notin {"idle", "received"}
    /\ req.bodyOk /\ Truthy(req.message)
    /\ isModelArmorEnabled

Registered(profile) == profile \in DOMAIN SAFETY_TEMPLATES

\* C30: with the classifier enabled, a chat request naming a profile that is
\* no key of the registry ends with an error reply without any classifier or
\* backend call; a request naming a registered profile has its prompt
\* classified under that profile's prompt template and its response under that
\* profile's response template.
C30_ProfileSelectsTemplates ==
    ProfiledChatRequest =>
        IF Registered(ProfileOf(req.safetyProfile))
        THEN san.pc # "idle"
             => san.template =
                  IF san.kind = "prompt"
                  THEN SAFETY_TEMPLATES[ProfileOf(req.safetyProfile)].prompt
                  ELSE SAFETY_TEMPLATES[ProfileOf(req.safetyProfile)].response
        ELSE /\ req.pc = "done"
             /\ req.reply.status >= 400
             /\ net.sanitizePrompt = 0 /\ net.sanitizeResponse = 0
             /\ net.classifierPosts = 0
             /\ BackendCalls = 0

====
